---- MODULE Spec2Model ----
(***************************************************************************)
(* A state-machine model of the reporting backend: the stored tables       *)
(* (events, event groups, reports, report modifiers, jobs), and one action *)
(* per request handler of api/controllers, the handlers of the three       *)
(* routers api/urls.py mounts.  Every action that answers a request        *)
(* records the request and the response in the variable last; a step that  *)
(* answers nothing sets it to NoReq.                                        *)
(* The variable calls holds the link_report_to_event_group requests that   *)
(* are served side by side, each cut between its reads and its write.      *)
(* The variable creating holds the create_event_group request that has     *)
(* committed its first write and is not yet answered.                      *)
(*                                                                         *)
(* Framework behaviour the handlers rely on:                               *)
(*  - a body or parameter that fails its ninja/pydantic schema is answered *)
(*    422 before the handler body runs;                                    *)
(*  - get_object_or_404 raises Http404, answered 404;                      *)
(*  - any other exception leaves the handler, rolls back the enclosing     *)
(*    transaction.atomic() block and is answered 500 by                    *)
(*    custom_exception_handler.                                            *)
(* The second NinjaAPI of api/views.py and the model viewsets of           *)
(* api/views/views.py are mounted by no URL configuration of the           *)
(* repository and serve no request.                                        *)
(* Fields no modelled decision reads (names, descriptions, timestamps, the *)
(* numeric report parameters) are left out of the rows.  Floats are drawn  *)
(* from small integer sets that hold both sides of every comparison.       *)
(***************************************************************************)
EXTENDS Integers, Sequences, FiniteSets, TLC

VARIABLES events, groups, reports, modifiers, jobs, nextId, last, calls

VARIABLE creating

vars ==
  <<events, groups, reports, modifiers, jobs, nextId, last, calls, creating>>
tables == <<events, groups, reports, modifiers, jobs>>
db == <<events, groups, reports, modifiers, jobs, nextId>>

(***************************************************************************)
(* Bounds of the model.                                                    *)
(***************************************************************************)
MaxEvents == 2
MaxGroups == 2
MaxReports == 2
MaxModifiers == 1
MaxListLen == 2
MaxId == 3
MaxListed == 4
MaxPerPage == 3
MaxPage == 5
MaxGeoEvents == 1
MaxPathRows == 1
MaxLinkId == 1
MaxCalls == 2
MaxRaceRows == 2
MaxFaultId == 1

(***************************************************************************)
(* Helpers.                                                                *)
(***************************************************************************)
Range(s) == {s[i] : i \in DOMAIN s}

Min(S) == CHOOSE x \in S : \A y \in S : x <= y

RECURSIVE SortedSeq(_)
SortedSeq(S) == IF S = {} THEN <<>> ELSE <<Min(S)>> \o SortedSeq(S \ {Min(S)})

SeqsUpTo(S, n) == UNION {[1..k -> S] : k \in 0..n}

\* Optional[int]: <<>> is None, <<v>> is the value v.
Truthy(opt) == opt # <<>> /\ opt[1] # 0

\* The request and response record; every action fills the fields it uses.
NoReq ==
  [op |-> "none", status |-> 0, id |-> 0, id2 |-> 0, mid |-> <<>>,
   ids |-> <<>>, coords |-> <<>>, jstatus |-> "", page |-> 0, per_page |-> 0,
   fault |-> 0, out_id |-> 0, out_ids |-> <<>>, total |-> 0,
   total_pages |-> 0, cron |-> <<>>, body_id |-> <<>>]

\* The link requests being served side by side: each slot holds one request
\* of link_report_to_event_group and how far its handler has run.
CallIds == 1..MaxCalls

NoCall ==
  [pc |-> "idle", report_id |-> 0, event_group_id |-> 0, unlinked |-> FALSE,
   status |-> 0]

NoCalls == [c \in CallIds |-> NoCall]

\* The create_event_group request that is being served: the group it
\* created, the ids it was sent and the events its filter found.
NoCreate ==
  [pc |-> "idle", group |-> 0, event_ids |-> <<>>, events |-> {}, fault |-> 0]

Init ==
  /\ events = <<>>
  /\ groups = <<>>
  /\ reports = <<>>
  /\ modifiers = <<>>
  /\ jobs = <<>>
  /\ nextId = [event |-> 1, group |-> 1, report |-> 1, modifier |-> 1, job |-> 1]
  /\ last = NoReq
  /\ calls = NoCalls
  /\ creating = NoCreate

\* Model.objects.filter(id=...).exists() on each table.
EventExists(id) == id \in DOMAIN events
GroupExists(id) == id \in DOMAIN groups
ReportExists(id) == id \in DOMAIN reports
ModifierExists(id) == id \in DOMAIN modifiers
JobExists(id) == id \in DOMAIN jobs

(***************************************************************************)
(* api/schemas/event.py: the input schemas of the ring and box events.     *)
(***************************************************************************)
\* Mutant: the bounds themselves are refused.
validate_latitude_strict(value) == -90 < value /\ value < 90

validate_latitude(value) == -90 <= value /\ value <= 90

validate_longitude(value) == -180 <= value /\ value <= 180

RingEventSchemaIn(latitude, longitude, radius) ==
  /\ validate_latitude(latitude)
  /\ validate_longitude(longitude)
  /\ radius >= 0

\* info.data holds only the fields declared before the one being validated
\* (and only those that passed): data is a function from their names.
validate_max_lat(value, data) ==
  ~("min_lat" \in DOMAIN data /\ value <= data["min_lat"])

validate_max_lon(value, data) ==
  ~("min_lon" \in DOMAIN data /\ value <= data["min_lon"])

\* Fields are validated in declaration order: max_lat, min_lat, max_lon,
\* min_lon.
BoxEventSchemaIn(max_lat, min_lat, max_lon, min_lon) ==
  LET d0 == <<>>
      ok1 == validate_latitude(max_lat) /\ validate_max_lat(max_lat, d0)
      d1 == IF ok1 THEN d0 @@ ("max_lat" :> max_lat) ELSE d0
      ok2 == validate_latitude(min_lat)
      d2 == IF ok2 THEN d1 @@ ("min_lat" :> min_lat) ELSE d1
      ok3 == validate_longitude(max_lon) /\ validate_max_lon(max_lon, d2)
      d3 == IF ok3 THEN d2 @@ ("max_lon" :> max_lon) ELSE d2
      ok4 == validate_longitude(min_lon)
  IN ok1 /\ ok2 /\ ok3 /\ ok4

\* BoxEvent.full_clean(): the model's own validation (api/models/event.py).
BoxEvent_full_clean(max_lat, min_lat, max_lon, min_lon) ==
  /\ validate_latitude(max_lat) /\ validate_latitude(min_lat)
  /\ validate_longitude(max_lon) /\ validate_longitude(min_lon)
  /\ max_lat > min_lat
  /\ max_lon > min_lon

(***************************************************************************)
(* api/controllers/event.py                                                *)
(***************************************************************************)
InsertEvent(kind, coords) ==
  /\ events' = events @@ (nextId.event :> [kind |-> kind, coords |-> coords])
  /\ nextId' = [nextId EXCEPT !.event = @ + 1]
  /\ UNCHANGED <<groups, reports, modifiers, jobs, calls, creating>>

create_ring_event(latitude, longitude, radius) ==
  LET req == [NoReq EXCEPT !.op = "create_ring_event",
                           !.coords = <<latitude, longitude, radius>>]
  IN IF ~RingEventSchemaIn(latitude, longitude, radius)
     THEN /\ last' = [req EXCEPT !.status = 422]
          /\ UNCHANGED <<db, calls, creating>>
     ELSE /\ InsertEvent("ring", <<latitude, longitude, radius>>)
          /\ last' = [req EXCEPT !.status = 201, !.out_id = nextId.event]

\* Mutant: the box is saved without full_clean().
create_box_event_no_clean(max_lat, min_lat, max_lon, min_lon) ==
  LET req == [NoReq EXCEPT !.op = "create_box_event",
                           !.coords = <<max_lat, min_lat, max_lon, min_lon>>]
  IN IF ~BoxEventSchemaIn(max_lat, min_lat, max_lon, min_lon)
     THEN /\ last' = [req EXCEPT !.status = 422]
          /\ UNCHANGED <<db, calls, creating>>
     ELSE /\ InsertEvent("box", <<max_lat, min_lat, max_lon, min_lon>>)
          /\ last' = [req EXCEPT !.status = 201, !.out_id = nextId.event]

create_box_event(max_lat, min_lat, max_lon, min_lon) ==
  LET req == [NoReq EXCEPT !.op = "create_box_event",
                           !.coords = <<max_lat, min_lat, max_lon, min_lon>>]
  IN IF ~BoxEventSchemaIn(max_lat, min_lat, max_lon, min_lon)
     THEN /\ last' = [req EXCEPT !.status = 422]
          /\ UNCHANGED <<db, calls, creating>>
     ELSE IF ~BoxEvent_full_clean(max_lat, min_lat, max_lon, min_lon)
     THEN /\ last' = [req EXCEPT !.status = 422]
          /\ UNCHANGED <<db, calls, creating>>
     ELSE /\ InsertEvent("box", <<max_lat, min_lat, max_lon, min_lon>>)
          /\ last' = [req EXCEPT !.status = 201, !.out_id = nextId.event]

create_geo_event ==
  /\ InsertEvent("geo", <<>>)
  /\ last' = [NoReq EXCEPT !.op = "create_geo_event", !.status = 201,
                           !.out_id = nextId.event]

\* Mutant: the listed ids are taken as found without looking at the table.
FilterIn_unchecked(table, ids) == Range(ids)

\* filter(id__in=ids): the stored rows whose id is in the list, each once.
FilterIn(table, ids) == Range(ids) \cap DOMAIN table

\* Writes of one request are numbered 1, 2, ...; fault = k makes the k-th
\* write raise a database error (django.db.utils.OperationalError), fault = 0
\* none.
\* create_event_group runs outside transaction.atomic(), so each of its
\* statements is committed on its own and other requests are served in
\* between.  This action is the handler up to its first write: the filter,
\* the length check and EventGroup.objects.create.
create_event_group(event_ids, fault) ==
  LET req == [NoReq EXCEPT !.op = "create_event_group", !.ids = event_ids,
                           !.fault = fault]
      found == FilterIn(events, event_ids)
      gid == nextId.group
  IN IF Cardinality(found) # Len(event_ids)
     THEN /\ last' = [req EXCEPT !.status = 422]
          /\ UNCHANGED <<db, calls, creating>>
     ELSE IF fault = 1
     THEN /\ last' = [req EXCEPT !.status = 500]
          /\ UNCHANGED <<db, calls, creating>>
     ELSE /\ creating.pc = "idle"
          /\ groups' = groups @@ (gid :> [events |-> {}])
          /\ nextId' = [nextId EXCEPT !.group = @ + 1]
          /\ creating' = [pc |-> "created", group |-> gid,
                          event_ids |-> event_ids, events |-> found,
                          fault |-> fault]
          /\ last' = NoReq
          /\ UNCHANGED <<events, reports, modifiers, jobs, calls>>

\* Mutant: a failed second write takes the group row back, as a rollback of
\* the whole request would.
create_event_group_set_undone ==
  LET gid == creating.group
      req == [NoReq EXCEPT !.op = "create_event_group",
                           !.ids = creating.event_ids,
                           !.fault = creating.fault]
  IN /\ creating.pc = "created"
     /\ IF creating.fault = 2 /\ creating.events # {}
        THEN /\ creating' = NoCreate
             /\ last' = [req EXCEPT !.status = 500]
             /\ groups' = [g \in DOMAIN groups \ {gid} |-> groups[g]]
        ELSE /\ creating' = [creating EXCEPT !.pc = "set"]
             /\ groups' = [groups EXCEPT ![gid].events = creating.events]
             /\ last' = NoReq
     /\ UNCHANGED <<events, reports, modifiers, jobs, nextId, calls>>

\* group.events.set(events) with the events the filter found.  With no event
\* to link it writes nothing, so the request has no second write that could
\* fail.  A failure leaves the group stored with no events.
create_event_group_set ==
  LET gid == creating.group
      req == [NoReq EXCEPT !.op = "create_event_group",
                           !.ids = creating.event_ids,
                           !.fault = creating.fault]
  IN /\ creating.pc = "created"
     /\ IF creating.fault = 2 /\ creating.events # {}
        THEN /\ creating' = NoCreate
             /\ last' = [req EXCEPT !.status = 500]
             /\ UNCHANGED groups
        ELSE /\ creating' = [creating EXCEPT !.pc = "set"]
             /\ groups' = [groups EXCEPT ![gid].events = creating.events]
             /\ last' = NoReq
     /\ UNCHANGED <<events, reports, modifiers, jobs, nextId, calls>>

\* The answer of create_event_group: event_ids is read back from the stored
\* group (group.events.values_list).
create_event_group_response ==
  LET gid == creating.group
      req == [NoReq EXCEPT !.op = "create_event_group",
                           !.ids = creating.event_ids,
                           !.fault = creating.fault]
  IN /\ creating.pc = "set"
     /\ creating' = NoCreate
     /\ last' = [req EXCEPT !.status = 201, !.out_id = gid,
                            !.out_ids = SortedSeq(groups[gid].events)]
     /\ UNCHANGED <<db, calls>>

get_event_group(id) ==
  LET req == [NoReq EXCEPT !.op = "get_event_group", !.id = id]
  IN /\ last' = IF ~GroupExists(id)
                THEN [req EXCEPT !.status = 404]
                ELSE [req EXCEPT !.status = 200, !.out_id = id,
                                 !.out_ids = SortedSeq(groups[id].events)]
     /\ UNCHANGED <<db, calls, creating>>

\* get_object_or_404(RingEvent | BoxEvent | GeoEvent, id=id): the stored
\* event of that kind, or 404.
get_ring_event(id) ==
  LET req == [NoReq EXCEPT !.op = "get_ring_event", !.id = id]
  IN /\ last' = IF ~(EventExists(id) /\ events[id].kind = "ring")
                THEN [req EXCEPT !.status = 404]
                ELSE [req EXCEPT !.status = 200, !.out_id = id,
                                 !.coords = events[id].coords]
     /\ UNCHANGED <<db, calls, creating>>

get_box_event(id) ==
  LET req == [NoReq EXCEPT !.op = "get_box_event", !.id = id]
  IN /\ last' = IF ~(EventExists(id) /\ events[id].kind = "box")
                THEN [req EXCEPT !.status = 404]
                ELSE [req EXCEPT !.status = 200, !.out_id = id,
                                 !.coords = events[id].coords]
     /\ UNCHANGED <<db, calls, creating>>

get_geo_event(id) ==
  LET req == [NoReq EXCEPT !.op = "get_geo_event", !.id = id]
  IN /\ last' = IF ~(EventExists(id) /\ events[id].kind = "geo")
                THEN [req EXCEPT !.status = 404]
                ELSE [req EXCEPT !.status = 200, !.out_id = id]
     /\ UNCHANGED <<db, calls, creating>>

(***************************************************************************)
(* api/schemas/report.py and api/controllers/report.py                     *)
(***************************************************************************)
\* ReportSchemaIn.validate_event_groups; None and [] are both <<>>.
validate_event_groups(value) ==
  value # <<>> => Cardinality(FilterIn(groups, value)) = Len(value)

\* to_report_schema_out: the event_groups of the output.
to_report_schema_out(id) == SortedSeq(reports[id].event_groups)

\* Mutant: the report is created and its event groups are never set.
report_event_groups_unset(event_groups) == {}

\* The groups create_report links: report.event_groups.set(...) runs only
\* for a non-empty list.
report_event_groups(event_groups) ==
  IF event_groups # <<>> THEN FilterIn(groups, event_groups) ELSE {}

\* ReportSchemaIn declares cron as Optional[str] with no validator, and
\* Report.objects.create stores it without full_clean().  cron is <<>> for
\* None and <<s>> for the string s, a sequence of characters.
create_report(event_groups, cron, fault) ==
  LET req == [NoReq EXCEPT !.op = "create_report", !.ids = event_groups,
                           !.cron = cron, !.fault = fault]
      rid == nextId.report
      linked == report_event_groups(event_groups)
  IN IF ~validate_event_groups(event_groups)
     THEN /\ last' = [req EXCEPT !.status = 422]
          /\ UNCHANGED <<db, calls, creating>>
     ELSE IF fault # 0
     THEN \* inside transaction.atomic(): rolled back
          /\ last' = [req EXCEPT !.status = 500]
          /\ UNCHANGED <<db, calls, creating>>
     ELSE /\ reports' = reports @@ (rid :> [event_groups |-> linked,
                                             cron |-> cron])
          /\ nextId' = [nextId EXCEPT !.report = @ + 1]
          /\ last' = [req EXCEPT !.status = 201, !.out_id = rid]
          /\ UNCHANGED <<events, groups, modifiers, jobs, calls, creating>>

get_report(id) ==
  LET req == [NoReq EXCEPT !.op = "get_report", !.id = id]
  IN /\ last' = IF ~ReportExists(id)
                THEN [req EXCEPT !.status = 404]
                ELSE [req EXCEPT !.status = 200, !.out_id = id,
                                 !.out_ids = to_report_schema_out(id)]
     /\ UNCHANGED <<db, calls, creating>>

\* Mutant: a request for a pair that is already linked takes the link away.
link_report_to_event_group_toggle(report_id, event_group_id, fault) ==
  LET req == [NoReq EXCEPT !.op = "link_report_to_event_group",
                           !.id = report_id, !.id2 = event_group_id,
                           !.fault = fault]
  IN IF ~ReportExists(report_id) \/ ~GroupExists(event_group_id)
     THEN /\ last' = [req EXCEPT !.status = 404]
          /\ UNCHANGED <<db, calls, creating>>
     ELSE /\ reports' = [reports EXCEPT ![report_id].event_groups =
                           IF event_group_id \in @
                           THEN @ \ {event_group_id}
                           ELSE @ \cup {event_group_id}]
          /\ last' = [req EXCEPT !.status = 200, !.out_id = report_id]
          /\ UNCHANGED <<events, groups, modifiers, jobs, nextId, calls, creating>>

\* Mutant: the link is added without looking for an existing one.
link_report_to_event_group_unchecked(report_id, event_group_id, fault) ==
  LET req == [NoReq EXCEPT !.op = "link_report_to_event_group",
                           !.id = report_id, !.id2 = event_group_id,
                           !.fault = fault]
  IN IF ~ReportExists(report_id) \/ ~GroupExists(event_group_id)
     THEN /\ last' = [req EXCEPT !.status = 404]
          /\ UNCHANGED <<db, calls, creating>>
     ELSE /\ reports' = [reports EXCEPT ![report_id].event_groups =
                                          @ \cup {event_group_id}]
          /\ last' = [req EXCEPT !.status = 200, !.out_id = report_id]
          /\ UNCHANGED <<events, groups, modifiers, jobs, nextId, calls, creating>>

link_report_to_event_group(report_id, event_group_id, fault) ==
  LET req == [NoReq EXCEPT !.op = "link_report_to_event_group",
                           !.id = report_id, !.id2 = event_group_id,
                           !.fault = fault]
  IN IF ~ReportExists(report_id) \/ ~GroupExists(event_group_id)
     THEN /\ last' = [req EXCEPT !.status = 404]
          /\ UNCHANGED <<db, calls, creating>>
     ELSE IF event_group_id \in reports[report_id].event_groups
     THEN /\ last' = [req EXCEPT !.status = 422]
          /\ UNCHANGED <<db, calls, creating>>
     ELSE IF fault # 0
     THEN /\ last' = [req EXCEPT !.status = 500]
          /\ UNCHANGED <<db, calls, creating>>
     ELSE /\ reports' = [reports EXCEPT ![report_id].event_groups =
                                          @ \cup {event_group_id}]
          /\ last' = [req EXCEPT !.status = 200, !.out_id = report_id]
          /\ UNCHANGED <<events, groups, modifiers, jobs, nextId, calls, creating>>

\* link_report_to_event_group as the server runs it for several requests at
\* once: each request has its own transaction, and nothing orders the reads
\* of one request against the writes of another (no select_for_update, no
\* lock).  The handler is cut between its reads and its write.
\* First part: both get_object_or_404 calls and the exists() query.
link_report_to_event_group_check(c, report_id, event_group_id) ==
  LET req == [NoCall EXCEPT !.report_id = report_id,
                            !.event_group_id = event_group_id]
  IN /\ calls[c].pc # "checked"
     /\ calls' = [calls EXCEPT ![c] =
          IF ~ReportExists(report_id) \/ ~GroupExists(event_group_id)
          THEN [req EXCEPT !.pc = "done", !.status = 404]
          ELSE IF event_group_id \in reports[report_id].event_groups
          THEN [req EXCEPT !.pc = "done", !.status = 422]
          ELSE [req EXCEPT !.pc = "checked", !.unlinked = TRUE]]
     /\ UNCHANGED <<db, last, creating>>

\* Second part: report.event_groups.add(event_group) and the 200.  When
\* another request wrote the link row in between, add() either finds it or
\* inserts ignoring the conflict (nothing written, 200), or, on a database
\* that cannot ignore the conflict or has the table locked, the insert
\* raises a database error the handler does not catch (rolled back, 500).
link_report_to_event_group_add(c) ==
  LET r == calls[c].report_id
      g == calls[c].event_group_id
  IN /\ calls[c].pc = "checked"
     /\ IF g \notin reports[r].event_groups
        THEN /\ reports' = [reports EXCEPT ![r].event_groups = @ \cup {g}]
             /\ calls' = [calls EXCEPT ![c].pc = "done", ![c].status = 200]
        ELSE /\ \E status \in {200, 500} :
                  calls' = [calls EXCEPT ![c].pc = "done",
                                         ![c].status = status]
             /\ UNCHANGED reports
     /\ UNCHANGED <<events, groups, modifiers, jobs, nextId, last, creating>>

\* ReportModifierSchemaIn declares report_id (required), as_at_date and
\* fx_date; the handler reads data.report_ids, which the schema does not
\* have.
ReportModifierSchemaIn_fields == {"report_id", "as_at_date", "fx_date"}

\* The body passes the schema when the required report_id is given; a
\* report_ids member of the body is ignored as an extra field.
ReportModifierSchemaIn(report_id, report_ids) == report_id # <<>>

\* ReportModifierSchemaOut requires report_id; to_report_modifier_schema_out
\* passes report_ids instead, so building the output raises.
ReportModifierSchemaOut_required ==
  {"id", "report_id", "as_at_date", "fx_date", "quarter", "year", "month", "day"}

to_report_modifier_schema_out_passed ==
  {"id", "as_at_date", "fx_date", "report_ids", "quarter", "year", "month", "day"}

to_report_modifier_schema_out_ok ==
  ReportModifierSchemaOut_required \subseteq to_report_modifier_schema_out_passed

\* report_id is the body's report_id (<<>> when the body has none) and
\* report_ids the list the body gives under report_ids.
create_report_modifier(report_id, report_ids, fault) ==
  LET req == [NoReq EXCEPT !.op = "create_report_modifier",
                           !.body_id = report_id, !.ids = report_ids,
                           !.fault = fault]
      mid == nextId.modifier
  IN IF ~ReportModifierSchemaIn(report_id, report_ids)
     THEN /\ last' = [req EXCEPT !.status = 422]
          /\ UNCHANGED <<db, calls, creating>>
     ELSE IF fault # 0 \/ "report_ids" \notin ReportModifierSchemaIn_fields
        \/ ~to_report_modifier_schema_out_ok
     THEN \* the created row is rolled back with the transaction
          /\ last' = [req EXCEPT !.status = 500]
          /\ UNCHANGED <<db, calls, creating>>
     ELSE /\ modifiers' = modifiers @@ (mid :> [reports |->
                                                 FilterIn(reports, report_ids)])
          /\ nextId' = [nextId EXCEPT !.modifier = @ + 1]
          /\ last' = [req EXCEPT !.status = 201, !.out_id = mid]
          /\ UNCHANGED <<events, groups, reports, jobs, calls, creating>>

link_modifier_to_reports(modifier_id, report_ids, fault) ==
  LET req == [NoReq EXCEPT !.op = "link_modifier_to_reports",
                           !.id = modifier_id, !.ids = report_ids,
                           !.fault = fault]
      found == FilterIn(reports, report_ids)
  IN IF ~ModifierExists(modifier_id)
     THEN /\ last' = [req EXCEPT !.status = 404]
          /\ UNCHANGED <<db, calls, creating>>
     ELSE IF Cardinality(found) # Len(report_ids)
     THEN /\ last' = [req EXCEPT !.status = 422]
          /\ UNCHANGED <<db, calls, creating>>
     ELSE IF fault # 0 \/ ~to_report_modifier_schema_out_ok
     THEN \* modifier.reports.add(...) is rolled back with the transaction
          /\ last' = [req EXCEPT !.status = 500]
          /\ UNCHANGED <<db, calls, creating>>
     ELSE /\ modifiers' = [modifiers EXCEPT ![modifier_id].reports =
                                              @ \cup found]
          /\ last' = [req EXCEPT !.status = 200, !.out_id = modifier_id,
                                 !.out_ids = SortedSeq(modifiers'[modifier_id].reports)]
          /\ UNCHANGED <<events, groups, reports, jobs, nextId, calls, creating>>

get_report_modifier(id) ==
  LET req == [NoReq EXCEPT !.op = "get_report_modifier", !.id = id]
  IN /\ last' = IF ~ModifierExists(id)
                THEN [req EXCEPT !.status = 404]
                ELSE IF ~to_report_modifier_schema_out_ok
                THEN [req EXCEPT !.status = 500]
                ELSE [req EXCEPT !.status = 200, !.out_id = id,
                                 !.out_ids = SortedSeq(modifiers[id].reports)]
     /\ UNCHANGED <<db, calls, creating>>

\* report.modifiers.all(): the modifiers linked to the report.
report_modifiers(id) == {m \in DOMAIN modifiers : id \in modifiers[m].reports}

get_report_with_modifiers(id) ==
  LET req == [NoReq EXCEPT !.op = "get_report_with_modifiers", !.id = id]
  IN /\ last' = IF ~ReportExists(id)
                THEN [req EXCEPT !.status = 404]
                ELSE IF report_modifiers(id) # {}
                        /\ ~to_report_modifier_schema_out_ok
                THEN [req EXCEPT !.status = 500]
                ELSE [req EXCEPT !.status = 200, !.out_id = id,
                                 !.out_ids = SortedSeq(report_modifiers(id))]
     /\ UNCHANGED <<db, calls, creating>>

get_report_with_event_groups(id) ==
  LET req == [NoReq EXCEPT !.op = "get_report_with_event_groups", !.id = id]
  IN /\ last' = IF ~ReportExists(id)
                THEN [req EXCEPT !.status = 404]
                ELSE [req EXCEPT !.status = 200, !.out_id = id,
                                 !.out_ids = to_report_schema_out(id)]
     /\ UNCHANGED <<db, calls, creating>>

get_report_and_modifier(report_id, modifier_id) ==
  LET req == [NoReq EXCEPT !.op = "get_report_and_modifier",
                           !.id = report_id, !.mid = <<modifier_id>>]
  IN /\ last' = IF ~ReportExists(report_id) \/ ~ModifierExists(modifier_id)
                THEN [req EXCEPT !.status = 404]
                ELSE IF report_id \notin modifiers[modifier_id].reports
                THEN [req EXCEPT !.status = 404]
                ELSE IF ~to_report_modifier_schema_out_ok
                THEN [req EXCEPT !.status = 500]
                ELSE [req EXCEPT !.status = 200, !.out_id = report_id]
     /\ UNCHANGED <<db, calls, creating>>

\* The names bound in get_report_and_event_group; its events comprehension
\* iterates over eg.events.all(), and eg is not among them (NameError).
get_report_and_event_group_names ==
  {"request", "report_id", "event_group_id", "report", "event_group", "event"}

get_report_and_event_group(report_id, event_group_id) ==
  LET req == [NoReq EXCEPT !.op = "get_report_and_event_group",
                           !.id = report_id, !.id2 = event_group_id]
  IN /\ last' = IF ~ReportExists(report_id) \/ ~GroupExists(event_group_id)
                THEN [req EXCEPT !.status = 404]
                ELSE IF event_group_id \notin reports[report_id].event_groups
                THEN [req EXCEPT !.status = 404]
                ELSE IF "eg" \notin get_report_and_event_group_names
                THEN [req EXCEPT !.status = 500]
                ELSE [req EXCEPT !.status = 200, !.out_id = report_id,
                                 !.out_ids = <<event_group_id>>]
     /\ UNCHANGED <<db, calls, creating>>

get_report_with_modifier_and_event_group(report_id, modifier_id, event_group_id) ==
  LET req == [NoReq EXCEPT !.op = "get_report_with_modifier_and_event_group",
                           !.id = report_id, !.mid = <<modifier_id>>,
                           !.id2 = event_group_id]
  IN /\ last' = IF \/ ~ReportExists(report_id)
                   \/ ~ModifierExists(modifier_id)
                   \/ ~GroupExists(event_group_id)
                THEN [req EXCEPT !.status = 404]
                ELSE IF report_id \notin modifiers[modifier_id].reports
                THEN [req EXCEPT !.status = 404]
                ELSE IF event_group_id \notin reports[report_id].event_groups
                THEN [req EXCEPT !.status = 404]
                ELSE IF ~to_report_modifier_schema_out_ok
                THEN [req EXCEPT !.status = 500]
                ELSE [req EXCEPT !.status = 200, !.out_id = report_id,
                                 !.out_ids = <<event_group_id>>]
     /\ UNCHANGED <<db, calls, creating>>

(***************************************************************************)
(* api/models/job.py, api/schemas/job.py and api/controllers/job.py        *)
(***************************************************************************)
JobStatuses == {"PENDING", "RUNNING", "COMPLETED", "FAILED"}

\* The fields of the Job model: id, report, created, updated.
Job_fields == {"id", "report", "created", "updated"}

\* Model.__init__ raises TypeError for a keyword that names no field (the
\* attribute name report_id of the foreign key is accepted too).
Job_init_ok(kwargs) == kwargs \subseteq (Job_fields \cup {"report_id"})

\* JobSchemaIn: report_id must exist; report_modifier_id is checked only when
\* truthy (neither None nor 0); status is one of the four literals.
JobSchemaIn(report_id, report_modifier_id, status) ==
  /\ ReportExists(report_id)
  /\ Truthy(report_modifier_id) => ModifierExists(report_modifier_id[1])
  /\ status \in JobStatuses

JobStatusUpdateSchemaIn(status) == status \in JobStatuses

\* Mutant: the modifier is taken as linked without looking.
modifier_linked_unchecked(modifier_id, report_id) == TRUE

\* report_modifier.reports.filter(id=data.report_id).exists()
modifier_linked(modifier_id, report_id) ==
  report_id \in modifiers[modifier_id].reports

create_job(report_id, report_modifier_id, status, fault) ==
  LET req == [NoReq EXCEPT !.op = "create_job", !.id = report_id,
                           !.mid = report_modifier_id, !.jstatus = status,
                           !.fault = fault]
      jid == nextId.job
  IN IF ~JobSchemaIn(report_id, report_modifier_id, status)
     THEN /\ last' = [req EXCEPT !.status = 422]
          /\ UNCHANGED <<db, calls, creating>>
     ELSE IF ~ReportExists(report_id)
     THEN /\ last' = [req EXCEPT !.status = 404]
          /\ UNCHANGED <<db, calls, creating>>
     ELSE IF Truthy(report_modifier_id)
             /\ ~ModifierExists(report_modifier_id[1])
     THEN /\ last' = [req EXCEPT !.status = 404]
          /\ UNCHANGED <<db, calls, creating>>
     ELSE IF Truthy(report_modifier_id)
             /\ ~modifier_linked(report_modifier_id[1], report_id)
     THEN /\ last' = [req EXCEPT !.status = 422]
          /\ UNCHANGED <<db, calls, creating>>
     ELSE IF fault # 0 \/ ~Job_init_ok({"report", "report_modifier", "status"})
     THEN \* Job.objects.create(report=, report_modifier=, status=) raises
          /\ last' = [req EXCEPT !.status = 500]
          /\ UNCHANGED <<db, calls, creating>>
     ELSE /\ jobs' = jobs @@ (jid :> [report |-> report_id])
          /\ nextId' = [nextId EXCEPT !.job = @ + 1]
          /\ last' = [req EXCEPT !.status = 201, !.out_id = jid]
          /\ UNCHANGED <<events, groups, reports, modifiers, calls, creating>>

\* job.report_modifier is read when the output is built; Job has no such
\* attribute, so an existing job ends in AttributeError and a rollback.
update_job_status(id, status) ==
  LET req == [NoReq EXCEPT !.op = "update_job_status", !.id = id,
                           !.jstatus = status]
  IN /\ last' = IF ~JobStatusUpdateSchemaIn(status)
                THEN [req EXCEPT !.status = 422]
                ELSE IF ~JobExists(id)
                THEN [req EXCEPT !.status = 404]
                ELSE IF "report_modifier" \notin Job_fields
                THEN [req EXCEPT !.status = 500]
                ELSE [req EXCEPT !.status = 200, !.out_id = id]
     /\ UNCHANGED <<db, calls, creating>>

\* Mutant: the job is looked up without get_object_or_404, so a missing id
\* ends in an error on None instead of a 404.
get_job_unchecked(id) ==
  /\ last' = [NoReq EXCEPT !.op = "get_job", !.id = id, !.status = 500]
  /\ UNCHANGED <<db, calls, creating>>

\* get_job builds its output from job.report_modifier and job.status, which
\* a Job does not have.
get_job(id) ==
  LET req == [NoReq EXCEPT !.op = "get_job", !.id = id]
  IN /\ last' = IF ~JobExists(id)
                THEN [req EXCEPT !.status = 404]
                ELSE IF "report_modifier" \notin Job_fields
                THEN [req EXCEPT !.status = 500]
                ELSE [req EXCEPT !.status = 200, !.out_id = id]
     /\ UNCHANGED <<db, calls, creating>>

(***************************************************************************)
(* api/serializers/event.py: validate_cron.  The model viewsets of         *)
(* api/views/views.py serve no request: the module takes its serializers   *)
(* from .serializers in one import statement, a module that does not       *)
(* exist, and api/serializers/report.py, where three of the nine names are  *)
(* defined, raises NameError when imported (validate_cron is used at line  *)
(* 25 and never imported); api/urls.py routes none of the viewsets.        *)
(***************************************************************************)
\* validate_cron (api/serializers/event.py): a string is the sequence of the
\* code points of its characters.  The pattern is five runs of [0-9*/,-]
\* separated by runs of whitespace; $ also matches before one final newline.
\* [0-9*/,-]: the digits 0-9 (48..57), * (42), / (47), the comma (44) and
\* - (45).
CronFieldChars == (48..57) \cup {42, 47, 44, 45}

\* \s of a str pattern, the Unicode whitespace: \t \n \v \f \r (9..13), the
\* separators 0x1C-0x1F and the space (28..32), U+0085 (133), U+00A0 (160),
\* U+1680 (5760), U+2000-U+200A (8192..8202), U+2028 and U+2029 (8232, 8233),
\* U+202F (8239), U+205F (8287) and U+3000 (12288).
WhitespaceChars ==
  (9..13) \cup (28..32) \cup {133, 160, 5760} \cup (8192..8202)
    \cup {8232, 8233, 8239, 8287, 12288}

CharClass(c) ==
  IF c \in CronFieldChars THEN "f"
  ELSE IF c \in WhitespaceChars THEN "s" ELSE "x"

\* The character classes of a string with every run collapsed to one entry.
RECURSIVE ClassRuns(_)
ClassRuns(str) ==
  IF str = <<>> THEN <<>>
  ELSE IF Len(str) = 1 THEN <<CharClass(str[1])>>
  ELSE IF CharClass(str[1]) = CharClass(str[2]) THEN ClassRuns(Tail(str))
  ELSE <<CharClass(str[1])>> \o ClassRuns(Tail(str))

cron_re_match(str) ==
  LET five == <<"f", "s", "f", "s", "f", "s", "f", "s", "f">>
  IN \/ ClassRuns(str) = five
     \/ /\ str # <<>>
        /\ str[Len(str)] = 10
        /\ ClassRuns(SubSeq(str, 1, Len(str) - 1)) = five

\* value is <<>> for None and <<str>> for a string; None and "" are falsy.
validate_cron(value) ==
  (value # <<>> /\ value[1] # <<>>) => cron_re_match(value[1])

(***************************************************************************)
(* django.core.paginator.Paginator as list_reports and list_jobs use it:   *)
(* orphans = 0, allow_empty_first_page = True.                             *)
(***************************************************************************)
\* math.ceil(a / b) for a >= 1 and b # 0.
CeilDiv(a, b) == IF b > 0 THEN (a + b - 1) \div b ELSE 0 - (a \div (0 - b))

\* Mutant: the page count rounds down.
Paginator_num_pages_floor(count, per_page) ==
  LET hits == IF count > 1 THEN count ELSE 1
  IN hits \div per_page

Paginator_num_pages(count, per_page) ==
  LET hits == IF count > 1 THEN count ELSE 1
  IN CeilDiv(hits, per_page)

\* Paginator.page(number).object_list over the ids in ascending order.
Paginator_page(ids, number, per_page) ==
  LET count == Len(ids)
      bottom == (number - 1) * per_page
      top == IF bottom + per_page >= count THEN count ELSE bottom + per_page
  IN SubSeq(ids, bottom + 1, top)

\* The paginated listing of a table: validate_number raises EmptyPage for a
\* number below 1 before num_pages is computed; num_pages divides by
\* per_page.  item_ok says whether building one output item succeeds.
\* Mutant: a page above the last one is clamped to the last page.
ListResponse_clamped(req, table, item_ok) ==
  LET ids == SortedSeq(DOMAIN table)
      count == Len(ids)
      per_page == req.per_page
      num_pages == Paginator_num_pages(count, per_page)
      page == IF per_page # 0 /\ req.page > num_pages THEN num_pages
              ELSE req.page
  IN IF page < 1
     THEN [req EXCEPT !.status = 422]
     ELSE IF per_page = 0
     THEN [req EXCEPT !.status = 500]
     ELSE IF Paginator_page(ids, page, per_page) # <<>> /\ ~item_ok
     THEN [req EXCEPT !.status = 500]
     ELSE [req EXCEPT !.status = 200,
                      !.out_ids = Paginator_page(ids, page, per_page),
                      !.total = count,
                      !.total_pages = num_pages]

ListResponse(req, table, item_ok) ==
  LET ids == SortedSeq(DOMAIN table)
      count == Len(ids)
      page == req.page
      per_page == req.per_page
  IN IF page < 1
     THEN [req EXCEPT !.status = 422]
     ELSE IF per_page = 0
     THEN [req EXCEPT !.status = 500]
     ELSE IF page > Paginator_num_pages(count, per_page)
     THEN [req EXCEPT !.status = 422]
     ELSE IF Paginator_page(ids, page, per_page) # <<>> /\ ~item_ok
     THEN [req EXCEPT !.status = 500]
     ELSE [req EXCEPT !.status = 200,
                      !.out_ids = Paginator_page(ids, page, per_page),
                      !.total = count,
                      !.total_pages = Paginator_num_pages(count, per_page)]

list_reports(page, per_page) ==
  /\ last' = ListResponse([NoReq EXCEPT !.op = "list_reports", !.page = page,
                                        !.per_page = per_page], reports, TRUE)
  /\ UNCHANGED <<db, calls, creating>>

\* Each item reads job.report_modifier, which the Job model does not have.
list_jobs(page, per_page) ==
  /\ last' = ListResponse([NoReq EXCEPT !.op = "list_jobs", !.page = page,
                                        !.per_page = per_page], jobs,
                          "report_modifier" \in Job_fields)
  /\ UNCHANGED <<db, calls, creating>>

(***************************************************************************)
(* Specifications.                                                         *)
(***************************************************************************)
NumEvents == Cardinality(DOMAIN events)
NumGroups == Cardinality(DOMAIN groups)
NumReports == Cardinality(DOMAIN reports)
NumModifiers == Cardinality(DOMAIN modifiers)

LatInputs == {-91, -90, 0, 90, 91}
LonInputs == {-181, -180, 0, 180, 181}
RadiusInputs == {-1, 0, 1}
Ids == 0..MaxId
IdLists == SeqsUpTo(1..MaxId, MaxListLen)
OptIds == {<<>>} \cup {<<i>> : i \in Ids}
StatusInputs == JobStatuses \cup {"BOGUS"}

FaultLists == SeqsUpTo(1..MaxId, 1)

\* Requests to the event, event-group and report endpoints.
NextEvents ==
  /\ NumEvents < MaxEvents
  /\ \/ create_ring_event(0, 0, 1)
     \/ create_box_event(90, -90, 180, -180)
     \/ create_geo_event

NextGroups ==
  \/ NumGroups < MaxGroups /\ \E ids \in IdLists : create_event_group(ids, 0)
  \/ create_event_group_set
  \/ create_event_group_response
  \/ \E id \in Ids : get_event_group(id)

NextReports ==
  \/ NumReports < MaxReports /\ \E ids \in IdLists : create_report(ids, <<>>, 0)
  \/ \E id \in Ids : get_report(id)
  \/ \E r \in Ids, g \in Ids : link_report_to_event_group(r, g, 0)

Next == NextEvents \/ NextGroups \/ NextReports

Spec == Init /\ [][Next]_vars

\* Reports over event groups: the handlers that read or write a report's
\* event_groups, with the groups created empty.
NextReportLinks ==
  \/ NumGroups < MaxGroups /\ create_event_group(<<>>, 0)
  \/ create_event_group_set
  \/ create_event_group_response
  \/ NumReports < MaxReports /\ \E ids \in IdLists : create_report(ids, <<>>, 0)
  \/ \E id \in Ids : get_report(id)
  \/ \E r \in Ids, g \in Ids : link_report_to_event_group(r, g, 0)

SpecReports == Init /\ [][NextReportLinks]_vars

\* Requests to the report-modifier and job endpoints; these handlers read
\* and write the report, modifier and job tables only.
NextModifiers ==
  \/ \E r \in OptIds, ids \in FaultLists : create_report_modifier(r, ids, 0)
  \/ \E m \in Ids, ids \in IdLists : link_modifier_to_reports(m, ids, 0)

NextJobs ==
  \/ NumReports < MaxReports /\ create_report(<<>>, <<>>, 0)
  \/ \E r \in Ids, m \in OptIds, st \in StatusInputs : create_job(r, m, st, 0)
  \/ \E j \in Ids, st \in StatusInputs : update_job_status(j, st)

\* A database that already holds a report and MaxModifiers report modifiers,
\* each linked to the report or to none: the rows of the ReportModifier model
\* and of its reports link table.
InitModifierRows ==
  /\ events = <<>>
  /\ groups = <<>>
  /\ reports = (1 :> [event_groups |-> {}, cron |-> <<>>])
  /\ modifiers \in [1..MaxModifiers -> [reports : SUBSET {1}]]
  /\ jobs = <<>>
  /\ nextId = [event |-> 1, group |-> 1, report |-> 2,
               modifier |-> MaxModifiers + 1, job |-> 1]
  /\ last = NoReq
  /\ calls = NoCalls
  /\ creating = NoCreate

\* A database that already holds a report and a Job row for it, the row as
\* the Job model stores it: id, report, created, updated.
InitJobRows ==
  /\ events = <<>>
  /\ groups = <<>>
  /\ reports = (1 :> [event_groups |-> {}, cron |-> <<>>])
  /\ modifiers = <<>>
  /\ jobs = (1 :> [report |-> 1])
  /\ nextId = [event |-> 1, group |-> 1, report |-> 2, modifier |-> 1, job |-> 2]
  /\ last = NoReq
  /\ calls = NoCalls
  /\ creating = NoCreate

\* A database that already holds a report and one report modifier, linked to
\* the report or not.
InitPathRows ==
  /\ events = <<>>
  /\ groups = <<>>
  /\ reports = (1 :> [event_groups |-> {}, cron |-> <<>>])
  /\ modifiers \in [{1} -> [reports : SUBSET {1}]]
  /\ jobs = <<>>
  /\ nextId = [event |-> 1, group |-> 1, report |-> 2, modifier |-> 2, job |-> 1]
  /\ last = NoReq
  /\ calls = NoCalls
  /\ creating = NoCreate

SpecJobs == InitModifierRows /\ [][NextModifiers \/ NextJobs]_vars

\* Event creation over the whole coordinate grid.
NextGeo ==
  /\ NumEvents < MaxGeoEvents
  /\ \/ \E la \in LatInputs, lo \in LonInputs, r \in RadiusInputs :
          create_ring_event(la, lo, r)
     \/ \E a \in LatInputs, b \in LatInputs, c \in LonInputs, d \in LonInputs :
          create_box_event(a, b, c, d)

SpecGeo == Init /\ [][NextGeo]_vars

\* Paginated listings over a growing report table.
NextList ==
  \/ NumReports < MaxListed /\ create_report(<<>>, <<>>, 0)
  \/ \E page \in -1..MaxPage, per_page \in -1..MaxPerPage :
       list_reports(page, per_page)
  \/ \E page \in -1..MaxPage, per_page \in -1..MaxPerPage :
       list_jobs(page, per_page)

SpecList == Init /\ [][NextList]_vars

\* The handlers that write more than once, with one write allowed to fail;
\* the ids asked for are 0, which is never stored, and 1..MaxFaultId.
Faults == 0..2

FaultIds == 0..MaxFaultId

OptFaultIds == {<<>>} \cup {<<i>> : i \in FaultIds}

FaultIdLists == SeqsUpTo(1..MaxFaultId, 1)

NextFault ==
  \/ NumEvents < MaxEvents /\ create_geo_event
  \/ NumGroups < MaxGroups
       /\ \E ids \in FaultIdLists, f \in Faults : create_event_group(ids, f)
  \/ create_event_group_set
  \/ create_event_group_response
  \/ NumReports < MaxReports
       /\ \E ids \in FaultIdLists, f \in Faults : create_report(ids, <<>>, f)
  \/ \E r \in FaultIds, g \in FaultIds, f \in Faults :
       link_report_to_event_group(r, g, f)
  \/ \E r \in FaultIds, f \in Faults : create_report_modifier(<<r>>, <<>>, f)
  \/ \E m \in FaultIds, ids \in FaultIdLists, f \in Faults :
       link_modifier_to_reports(m, ids, f)
  \/ \E r \in FaultIds, m \in OptFaultIds, f \in Faults :
       create_job(r, m, "PENDING", f)

SpecFault == InitModifierRows /\ [][NextFault]_vars

\* Events, event groups and reports with the links between them: groups
\* are created over stored events and reports over stored groups, and the
\* second write of create_event_group may fail.  Creation stops at MaxLinkId
\* rows a table; the ids asked for are 0, which is never stored, and
\* 1..MaxLinkId.
LinkIds == 0..MaxLinkId

LinkLists == SeqsUpTo(1..MaxLinkId, 1)

NextLinks ==
  \/ /\ NumEvents < MaxLinkId
     /\ \/ create_ring_event(0, 0, 1)
        \/ create_geo_event
  \/ /\ NumGroups < MaxLinkId
     /\ \E ids \in LinkLists, f \in {0, 2} : create_event_group(ids, f)
  \/ create_event_group_set
  \/ create_event_group_response
  \/ NumReports < MaxLinkId /\ \E ids \in LinkLists : create_report(ids, <<>>, 0)
  \/ \E id \in LinkIds : get_event_group(id)
  \/ \E r \in LinkIds, g \in LinkIds : link_report_to_event_group(r, g, 0)

SpecLinks == Init /\ [][NextLinks]_vars

\* The handlers that are to change a stored entity, link_report_to_event_group,
\* link_modifier_to_reports and update_job_status, over a database that
\* holds a report with a report modifier or a report with a job, beside the
\* creation of events and event groups.
NextChanges ==
  \/ NumEvents < MaxLinkId /\ create_ring_event(0, 0, 1)
  \/ NumGroups < MaxLinkId /\ \E ids \in LinkLists : create_event_group(ids, 0)
  \/ create_event_group_set
  \/ create_event_group_response
  \/ \E r \in LinkIds, g \in LinkIds : link_report_to_event_group(r, g, 0)
  \/ \E m \in LinkIds, ids \in LinkLists : link_modifier_to_reports(m, ids, 0)
  \/ \E j \in LinkIds, st \in JobStatuses : update_job_status(j, st)

SpecChanges == (InitPathRows \/ InitJobRows) /\ [][NextChanges]_vars

\* Cron strings, each the sequence of its code points: 42 is *, 47 /, 44 the
\* comma, 45 -, 48..57 the digits, 32 the space, 97 a, 120 x; 8203 (U+200B,
\* the zero-width space) and 6158 (U+180E) are no whitespace.
CronInputs ==
  { <<>>,
    <<42, 32, 42, 32, 42, 32, 42, 32, 42>>,
    <<42, 47, 53, 32, 48, 9, 49, 44, 50, 32, 32, 42, 32, 49, 45, 53>>,
    <<42, 32, 42, 32, 42, 32, 42, 32, 42, 10>>,
    <<42, 32, 42, 32, 42, 32, 42, 32, 42, 10, 10>>,
    <<42, 32, 42, 32, 42, 32, 42, 32, 42, 32>>,
    <<42, 32, 42, 32, 42, 32, 42>>,
    <<42, 32, 42, 32, 42, 32, 42, 32, 42, 32, 42>>,
    <<32, 42, 32, 42, 32, 42, 32, 42, 32, 42>>,
    <<97, 32, 42, 32, 42, 32, 42, 32, 42>>,
    <<42, 32, 42, 32, 42, 32, 42, 13, 42>>,
    <<42, 32, 42, 32, 42, 32, 42, 12, 42>>,
    <<49, 11, 49, 32, 49, 32, 49, 32, 49>>,
    <<49, 28, 49, 29, 49, 30, 49, 31, 49>>,
    <<49, 133, 49, 160, 49, 32, 49, 32, 49>>,
    <<49, 5760, 49, 8192, 49, 8202, 49, 8232, 49>>,
    <<49, 8233, 49, 8239, 49, 8287, 49, 12288, 49>>,
    <<49, 8203, 49, 32, 49, 32, 49, 32, 49>>,
    <<49, 6158, 49, 32, 49, 32, 49, 32, 49>>,
    <<42, 13, 10, 42, 13, 10, 42, 13, 10, 42, 13, 10, 42>>,
    <<120>> }

OptCrons == {<<>>} \cup {<<c>> : c \in CronInputs}

\* Report creation over the cron inputs.
NextCron ==
  \/ NumReports < MaxReports /\ \E c \in OptCrons : create_report(<<>>, c, 0)
  \/ \E id \in Ids : get_report(id)

SpecCron == Init /\ [][NextCron]_vars

NextJobRows ==
  \/ NumReports < MaxReports /\ create_report(<<>>, <<>>, 0)
  \/ \E r \in Ids, m \in OptIds, st \in StatusInputs : create_job(r, m, st, 0)
  \/ \E j \in Ids, st \in StatusInputs : update_job_status(j, st)
  \/ \E j \in Ids : get_job(j)
  \/ \E page \in 1..2, per_page \in 1..2 : list_jobs(page, per_page)

SpecJobRows == InitJobRows /\ [][NextJobRows]_vars

\* Every handler that takes an id in its path, over a database of at most
\* MaxPathRows rows a table; the ids asked for are 0, which is never stored,
\* and those that can be stored.  The events created are rings and boxes, so
\* that an event getter meets stored events of its own and of another kind.
PathIds == 0..MaxPathRows

PathLists == SeqsUpTo(1..MaxPathRows, 1)

NextPaths ==
  \/ /\ NumEvents < MaxPathRows
     /\ \/ create_ring_event(0, 0, 1)
        \/ create_box_event(90, -90, 180, -180)
  \/ NumGroups < MaxPathRows /\ create_event_group(<<>>, 0)
  \/ create_event_group_set
  \/ create_event_group_response
  \/ NumReports < MaxPathRows /\ \E ids \in PathLists : create_report(ids, <<>>, 0)
  \/ \E id \in PathIds : get_ring_event(id)
  \/ \E id \in PathIds : get_box_event(id)
  \/ \E id \in PathIds : get_geo_event(id)
  \/ \E id \in PathIds : get_event_group(id)
  \/ \E id \in PathIds : get_report(id)
  \/ \E id \in PathIds : get_report_modifier(id)
  \/ \E id \in PathIds : get_report_with_modifiers(id)
  \/ \E id \in PathIds : get_report_with_event_groups(id)
  \/ \E r \in PathIds, m \in PathIds : get_report_and_modifier(r, m)
  \/ \E r \in PathIds, g \in PathIds : get_report_and_event_group(r, g)
  \/ \E r \in PathIds, m \in PathIds, g \in PathIds :
       get_report_with_modifier_and_event_group(r, m, g)
  \/ \E id \in PathIds : get_job(id)
  \/ \E id \in PathIds, st \in StatusInputs : update_job_status(id, st)
  \/ \E m \in PathIds, ids \in PathLists : link_modifier_to_reports(m, ids, 0)
  \/ \E r \in PathIds, g \in PathIds : link_report_to_event_group(r, g, 0)

SpecPaths == (Init \/ InitPathRows) /\ [][NextPaths]_vars

\* Link requests served side by side over a database of at most
\* MaxRaceRows reports and event groups; a slot takes a new request once its
\* request is answered.
RaceIds == 1..MaxRaceRows

NextConcurrent ==
  \/ NumGroups < MaxRaceRows /\ create_event_group(<<>>, 0)
  \/ create_event_group_set
  \/ create_event_group_response
  \/ NumReports < MaxRaceRows /\ create_report(<<>>, <<>>, 0)
  \/ \E c \in CallIds, r \in RaceIds, g \in RaceIds :
       link_report_to_event_group_check(c, r, g)
  \/ \E c \in CallIds : link_report_to_event_group_add(c)

SpecConcurrent == Init /\ [][NextConcurrent]_vars

(***************************************************************************)
(* Properties.                                                             *)
(***************************************************************************)
ListOps == {"list_reports", "list_jobs"}

\* The table a listing pages over.
ListedCount(op) ==
  IF op = "list_reports" THEN Cardinality(DOMAIN reports)
  ELSE Cardinality(DOMAIN jobs)

\* ceil(total / per_page) for per_page >= 1, as the least n with
\* n * per_page >= total.
CeilOf(total, per_page) ==
  CHOOSE n \in 0..total : n * per_page >= total
                          /\ (n = 0 \/ (n - 1) * per_page < total)

InRange4(c) ==
  /\ -90 <= c[1] /\ c[1] <= 90 /\ -90 <= c[2] /\ c[2] <= 90
  /\ -180 <= c[3] /\ c[3] <= 180 /\ -180 <= c[4] /\ c[4] <= 180

\* C2: create_job with an existing report and an existing modifier that is
\* not linked to that report returns 422 and leaves the jobs unchanged.
C2_UnlinkedModifierRejected ==
  [][(/\ last'.op = "create_job"
      /\ ReportExists(last'.id)
      /\ last'.mid # <<>>
      /\ ModifierExists(last'.mid[1])
      /\ last'.id \notin modifiers[last'.mid[1]].reports)
     => (last'.status = 422 /\ jobs' = jobs)]_vars

C2_Witness ==
  /\ last.op = "create_job"
  /\ last.jstatus \in JobStatuses
  /\ ReportExists(last.id)
  /\ last.mid # <<>>
  /\ ModifierExists(last.mid[1])
  /\ last.id \notin modifiers[last.mid[1]].reports
  /\ last.status = 422
  /\ jobs = <<>>

\* Whether a create request names an id that is not stored.
NamesMissingId(r) ==
  \/ r.op = "create_event_group" /\ \E i \in DOMAIN r.ids : ~EventExists(r.ids[i])
  \/ r.op = "create_report" /\ \E i \in DOMAIN r.ids : ~GroupExists(r.ids[i])
  \/ r.op = "create_job"
       /\ (~ReportExists(r.id) \/ (r.mid # <<>> /\ ~ModifierExists(r.mid[1])))

\* C3: a create request for an EventGroup, a Report or a Job that names an
\* id that is not stored is answered 422 or 404 and changes no table.
C3_MissingIdRejected ==
  [][NamesMissingId(last')
     => (last'.status \in {422, 404} /\ UNCHANGED tables)]_vars

MultiWriteOps ==
  {"create_event_group", "create_report", "create_report_modifier",
   "create_job", "link_modifier_to_reports", "link_report_to_event_group"}

\* C4: a request to a handler that writes more than once and fails leaves
\* none of its writes in the tables: the step that answers changes no table,
\* and a group the request had already created (the create_event_group
\* request that ends at its second write) is not stored afterwards.
C4_AllOrNothing ==
  [][(last'.op \in MultiWriteOps /\ last'.status \notin {200, 201})
     => /\ UNCHANGED tables
        /\ (creating.pc = "created" /\ creating'.pc = "idle")
           => creating.group \notin DOMAIN groups']_vars

\* C5: create_box_event with the four coordinates in range and
\* max_lat <= min_lat or max_lon <= min_lon returns 422 and stores nothing,
\* and every stored BoxEvent has max_lat > min_lat and max_lon > min_lon.
C5_BoxOrdering ==
  /\ [](\A id \in DOMAIN events :
          events[id].kind = "box"
          => /\ events[id].coords[1] > events[id].coords[2]
             /\ events[id].coords[3] > events[id].coords[4])
  /\ [][(/\ last'.op = "create_box_event"
         /\ InRange4(last'.coords)
         /\ (last'.coords[1] <= last'.coords[2]
             \/ last'.coords[3] <= last'.coords[4]))
        => (last'.status = 422 /\ UNCHANGED tables)]_vars

C5_Witness ==
  /\ last.op = "create_box_event"
  /\ InRange4(last.coords)
  /\ last.coords[1] = last.coords[2]
  /\ last.coords[3] > last.coords[4]
  /\ last.status = 422
  /\ events = <<>>

\* C6: a ring or box creation whose latitudes are in [-90,90] and longitudes
\* in [-180,180] (radius >= 0, box ordering satisfied) returns 201 and stores
\* the event; one with a latitude or longitude out of range returns 422 and
\* stores nothing.
RingInRange(c) ==
  -90 <= c[1] /\ c[1] <= 90 /\ -180 <= c[2] /\ c[2] <= 180

Stored(kind, r) ==
  /\ r.status = 201
  /\ r.out_id \notin DOMAIN events
  /\ events' = events @@ (r.out_id :> [kind |-> kind, coords |-> r.coords])

C6_CoordinateRanges ==
  [][/\ (last'.op = "create_ring_event" /\ RingInRange(last'.coords)
           /\ last'.coords[3] >= 0)
        => Stored("ring", last')
     /\ (last'.op = "create_ring_event" /\ ~RingInRange(last'.coords))
        => (last'.status = 422 /\ UNCHANGED tables)
     /\ (last'.op = "create_box_event" /\ InRange4(last'.coords)
           /\ last'.coords[1] > last'.coords[2]
           /\ last'.coords[3] > last'.coords[4])
        => Stored("box", last')
     /\ (last'.op = "create_box_event" /\ ~InRange4(last'.coords))
        => (last'.status = 422 /\ UNCHANGED tables)]_vars

C6_Witness ==
  /\ last.op = "create_box_event"
  /\ last.coords = <<90, -90, 180, -180>>
  /\ last.status = 201
  /\ last.out_id \in DOMAIN events
  /\ events[last.out_id] = [kind |-> "box", coords |-> <<90, -90, 180, -180>>]

\* C7: after create_report succeeds with event_groups = [a, b], get_report
\* on the returned id returns exactly {a, b} as a set, and no request other
\* than a link on that report changes what get_report returns for it.
C7_RoundTrip ==
  /\ []((last.op = "create_report" /\ last.status = 201)
        => Range(to_report_schema_out(last.out_id)) = Range(last.ids))
  /\ [][\A r \in DOMAIN reports :
          ~(last'.op = "link_report_to_event_group" /\ last'.id = r)
          => /\ r \in DOMAIN reports'
             /\ to_report_schema_out(r)' = to_report_schema_out(r)]_vars

C7_Witness ==
  /\ last.op = "create_report"
  /\ last.status = 201
  /\ Len(last.ids) = 2
  /\ last.ids[1] # last.ids[2]
  /\ Range(to_report_schema_out(last.out_id)) = {last.ids[1], last.ids[2]}

\* The page count of a listing: ceil(total / per_page), and 1 for an empty
\* table.
PagesOf(total, per_page) ==
  IF total = 0 THEN 1 ELSE CeilOf(total, per_page)

\* C8: a listing with per_page >= 1 and a page below 1 or above total_pages
\* returns 422 and no items.
C8_OutOfRangePageRejected ==
  (/\ last.op \in ListOps
   /\ last.per_page >= 1
   /\ (last.page < 1
       \/ last.page > PagesOf(ListedCount(last.op), last.per_page)))
  => (last.status = 422 /\ last.out_ids = <<>>)

C8_Witness ==
  /\ last.op = "list_reports"
  /\ last.per_page = 2
  /\ Cardinality(DOMAIN reports) = 3
  /\ last.page = 3
  /\ last.status = 422

\* C9 as stated: a successful listing with per_page >= 1 returns the number
\* of stored entities as total and ceil(total / per_page) as total_pages,
\* total = 0 included.
C9_TotalPagesCeil ==
  (last.op \in ListOps /\ last.status = 200 /\ last.per_page >= 1)
  => /\ last.total = ListedCount(last.op)
     /\ last.total_pages = CeilOf(last.total, last.per_page)

\* C9 amended: total is the number of stored entities, and total_pages is
\* ceil(total / per_page) when total > 0 and 1 when total = 0.
C9_TotalPagesAmended ==
  (last.op \in ListOps /\ last.status = 200 /\ last.per_page >= 1)
  => /\ last.total = ListedCount(last.op)
     /\ last.total_pages = PagesOf(last.total, last.per_page)

C9_Witness ==
  /\ last.op = "list_reports"
  /\ last.status = 200
  /\ last.per_page = 2
  /\ last.total = 3
  /\ last.total_pages = 2
  /\ last.page = 2
  /\ last.out_ids = <<3>>

\* C10: every stored Job has a status among PENDING, RUNNING, COMPLETED and
\* FAILED, and create_job and update_job_status with another status are
\* rejected and change no table.
C10_StatusValidated ==
  /\ [](\A j \in DOMAIN jobs :
          "status" \in DOMAIN jobs[j] /\ jobs[j]["status"] \in JobStatuses)
  /\ [][(last'.op \in {"create_job", "update_job_status"}
           /\ last'.jstatus \notin JobStatuses)
        => (last'.status = 422 /\ UNCHANGED tables)]_vars

\* C11: update_job_status on a stored Job with one of the four statuses
\* returns 200, sets the Job's stored status to the supplied value and changes
\* nothing else.
C11_StatusUpdated ==
  [][(/\ last'.op = "update_job_status"
      /\ JobExists(last'.id)
      /\ last'.jstatus \in JobStatuses)
     => /\ last'.status = 200
        /\ DOMAIN jobs' = DOMAIN jobs
        /\ "status" \in DOMAIN jobs'[last'.id]
        /\ jobs'[last'.id]["status"] = last'.jstatus
        /\ jobs'[last'.id].report = jobs[last'.id].report
        /\ \A j \in DOMAIN jobs \ {last'.id} : jobs'[j] = jobs[j]
        /\ UNCHANGED <<events, groups, reports, modifiers>>]_vars

\* C12: no request removes an entity: the stored ids of every kind only grow.
C12_NothingRemoved ==
  [][/\ DOMAIN events \subseteq DOMAIN events'
     /\ DOMAIN groups \subseteq DOMAIN groups'
     /\ DOMAIN reports \subseteq DOMAIN reports'
     /\ DOMAIN modifiers \subseteq DOMAIN modifiers'
     /\ DOMAIN jobs \subseteq DOMAIN jobs']_vars

\* A create_event_group request has failed at its second write over stored
\* events, groups and reports.
C12_Witness ==
  /\ last.op = "create_event_group"
  /\ last.status = 500
  /\ NumEvents > 0
  /\ NumGroups > 0
  /\ NumReports > 0

\* Whether the step is the second write of create_event_group on the group
\* g, the group its own request created.
OwnSecondWrite(g) ==
  creating.pc = "created" /\ creating.group = g /\ creating'.pc = "set"

\* C13 as claimed: once an entity is stored, no later request changes its
\* fields or its link sets; only a Job's status may change.  (The second
\* write of create_event_group belongs to the request that created the
\* group.)
C13_OnlyJobStatusChanges ==
  [][/\ \A e \in DOMAIN events \cap DOMAIN events' : events'[e] = events[e]
     /\ \A g \in DOMAIN groups \cap DOMAIN groups' :
          groups'[g] = groups[g] \/ OwnSecondWrite(g)
     /\ \A r \in DOMAIN reports \cap DOMAIN reports' : reports'[r] = reports[r]
     /\ \A m \in DOMAIN modifiers \cap DOMAIN modifiers' :
          modifiers'[m] = modifiers[m]
     /\ \A j \in DOMAIN jobs \cap DOMAIN jobs' :
          jobs'[j].report = jobs[j].report]_vars

\* C13, amended: link_report_to_event_group changes a stored entity too, and
\* only by adding.  A stored Report's event_groups change only in a step of
\* link_report_to_event_group answered 200, which adds the group of the
\* request to the report of the request; every other field and link set of
\* a stored entity, a ReportModifier's reports included, stays as it is (a
\* Job's status apart).
C13_OnlyLinksAdded ==
  [][/\ \A e \in DOMAIN events \cap DOMAIN events' : events'[e] = events[e]
     /\ \A g \in DOMAIN groups \cap DOMAIN groups' :
          groups'[g] = groups[g] \/ OwnSecondWrite(g)
     /\ \A r \in DOMAIN reports \cap DOMAIN reports' :
          /\ reports'[r].cron = reports[r].cron
          /\ \/ reports'[r].event_groups = reports[r].event_groups
             \/ /\ last'.op = "link_report_to_event_group"
                /\ last'.status = 200
                /\ last'.id = r
                /\ reports'[r].event_groups =
                     reports[r].event_groups \cup {last'.id2}
     /\ \A m \in DOMAIN modifiers \cap DOMAIN modifiers' :
          modifiers'[m] = modifiers[m]
     /\ \A j \in DOMAIN jobs \cap DOMAIN jobs' :
          jobs'[j].report = jobs[j].report]_vars

\* link_report_to_event_group has added a group with events to a stored
\* report.
C13_Witness ==
  /\ last.op = "link_report_to_event_group"
  /\ last.status = 200
  /\ ReportExists(last.id)
  /\ last.id2 \in reports[last.id].event_groups
  /\ groups[last.id2].events # {}

\* The 5-field cron grammar: five fields over 0-9 * / , - separated by
\* whitespace.
CronGrammar(str) ==
  ClassRuns(str) = <<"f", "s", "f", "s", "f", "s", "f", "s", "f">>

\* C14: every stored Report has a cron that is absent (or empty) or matches
\* the 5-field grammar, and create_report with a non-empty cron that does not
\* match it returns 422 and stores no Report.
C14_CronValidated ==
  /\ [](\A r \in DOMAIN reports :
          \/ reports[r].cron = <<>>
          \/ reports[r].cron[1] = <<>>
          \/ CronGrammar(reports[r].cron[1]))
  /\ [][(/\ last'.op = "create_report"
         /\ last'.cron # <<>>
         /\ last'.cron[1] # <<>>
         /\ ~CronGrammar(last'.cron[1]))
        => (last'.status = 422 /\ UNCHANGED tables)]_vars

\* C15: in every reachable state every Job's report is a stored Report, every
\* set report_modifier of a Job a stored ReportModifier, every member of a
\* Report's event_groups a stored EventGroup, every member of an EventGroup's
\* events a stored Event and every member of a ReportModifier's reports a
\* stored Report.
C15_ReferentialIntegrity ==
  /\ \A j \in DOMAIN jobs :
       /\ jobs[j].report \in DOMAIN reports
       /\ ("report_modifier" \in DOMAIN jobs[j]
             /\ jobs[j]["report_modifier"] # <<>>)
          => jobs[j]["report_modifier"][1] \in DOMAIN modifiers
  /\ \A r \in DOMAIN reports : reports[r].event_groups \subseteq DOMAIN groups
  /\ \A g \in DOMAIN groups : groups[g].events \subseteq DOMAIN events
  /\ \A m \in DOMAIN modifiers : modifiers[m].reports \subseteq DOMAIN reports

C15_Witness ==
  /\ last.op = "create_report"
  /\ last.status = 201
  /\ last.out_id \in DOMAIN reports
  /\ \E g \in reports[last.out_id].event_groups :
       g \in DOMAIN groups /\ groups[g].events # {}

\* Whether the id a request gives in its path names no stored entity of the
\* kind the handler expects.
MissingPathId(r) ==
  \/ r.op = "get_ring_event"
       /\ ~(EventExists(r.id) /\ events[r.id].kind = "ring")
  \/ r.op = "get_box_event"
       /\ ~(EventExists(r.id) /\ events[r.id].kind = "box")
  \/ r.op = "get_geo_event"
       /\ ~(EventExists(r.id) /\ events[r.id].kind = "geo")
  \/ r.op = "get_event_group" /\ ~GroupExists(r.id)
  \/ r.op \in {"get_report", "get_report_with_modifiers",
               "get_report_with_event_groups"} /\ ~ReportExists(r.id)
  \/ r.op \in {"get_report_modifier", "link_modifier_to_reports"}
       /\ ~ModifierExists(r.id)
  \/ r.op \in {"get_job", "update_job_status"} /\ ~JobExists(r.id)
  \/ r.op = "get_report_and_modifier"
       /\ (~ReportExists(r.id) \/ ~ModifierExists(r.mid[1]))
  \/ r.op \in {"get_report_and_event_group", "link_report_to_event_group"}
       /\ (~ReportExists(r.id) \/ ~GroupExists(r.id2))
  \/ r.op = "get_report_with_modifier_and_event_group"
       /\ (~ReportExists(r.id) \/ ~ModifierExists(r.mid[1])
           \/ ~GroupExists(r.id2))

\* C16 as stated: every handler with an id in its path returns 404 and changes
\* no table when that id names no stored entity of the expected kind.
C16_MissingPathId404 ==
  [][MissingPathId(last') => (last'.status = 404 /\ UNCHANGED tables)]_vars

\* C16 amended: the same for every request whose body passes its schema
\* (update_job_status is the one handler listed that has a body schema).
C16_MissingPathId404ValidBody ==
  [][(/\ MissingPathId(last')
      /\ (last'.op = "update_job_status" => last'.jstatus \in JobStatuses))
     => (last'.status = 404 /\ UNCHANGED tables)]_vars

C16_Witness ==
  /\ last.op = "get_ring_event"
  /\ EventExists(last.id)
  /\ events[last.id].kind = "box"
  /\ last.status = 404

\* C17: create_report_modifier or link_modifier_to_reports (on a stored
\* modifier) with a list of report ids of which one names no stored Report
\* returns 422 and changes no table.
C17_InvalidReportIdsRejected ==
  [][(/\ \/ last'.op = "create_report_modifier"
         \/ last'.op = "link_modifier_to_reports" /\ ModifierExists(last'.id)
      /\ \E i \in DOMAIN last'.ids : ~ReportExists(last'.ids[i]))
     => (last'.status = 422 /\ UNCHANGED tables)]_vars

\* Whether the request fails validation: a bad field value (a job status
\* outside the four, a per_page below 1), an invalid cross-reference (a
\* report, report modifier or event group the body names that is not stored)
\* or a bad page number.  The entity a path id names is stored.
ValidationFailure(r) ==
  \/ /\ r.op = "create_job"
     /\ \/ r.jstatus \notin JobStatuses
        \/ ~ReportExists(r.id)
        \/ (r.mid # <<>> /\ ~ModifierExists(r.mid[1]))
  \/ /\ r.op = "update_job_status"
     /\ r.jstatus \notin JobStatuses
  \/ /\ r.op = "create_report_modifier"
     /\ \E i \in DOMAIN r.ids : ~ReportExists(r.ids[i])
  \/ /\ r.op = "link_modifier_to_reports"
     /\ ModifierExists(r.id)
     /\ \E i \in DOMAIN r.ids : ~ReportExists(r.ids[i])
  \/ /\ r.op = "create_report"
     /\ \E i \in DOMAIN r.ids : ~GroupExists(r.ids[i])
  \/ /\ r.op \in ListOps
     /\ (r.page < 1 \/ r.per_page < 1)

\* C18: a failed request is answered 404, 422 or 500, and a validation failure
\* is answered 422, never 400 or 500.
C18_StatusByFailureKind ==
  [][/\ last'.status \in {200, 201, 404, 422, 500}
     /\ ValidationFailure(last') => last'.status = 422]_vars

\* C19: create_job with a stored report and either no modifier or a modifier
\* linked to that report returns 201 and stores exactly one new Job with that
\* report.
C19_JobCreated ==
  [][(/\ last'.op = "create_job"
      /\ ReportExists(last'.id)
      /\ last'.jstatus \in JobStatuses
      /\ \/ last'.mid = <<>>
         \/ /\ ModifierExists(last'.mid[1])
            /\ last'.id \in modifiers[last'.mid[1]].reports)
     => /\ last'.status = 201
        /\ last'.out_id \notin DOMAIN jobs
        /\ DOMAIN jobs' = DOMAIN jobs \cup {last'.out_id}
        /\ jobs'[last'.out_id].report = last'.id]_vars

\* C20: create_report_modifier with a non-empty list of stored report ids
\* returns 201 and stores one new modifier linked to exactly the listed
\* reports.
C20_ModifierCreated ==
  [][(/\ last'.op = "create_report_modifier"
      /\ last'.ids # <<>>
      /\ \A i \in DOMAIN last'.ids : ReportExists(last'.ids[i]))
     => /\ last'.status = 201
        /\ last'.out_id \notin DOMAIN modifiers
        /\ DOMAIN modifiers' = DOMAIN modifiers \cup {last'.out_id}
        /\ modifiers'[last'.out_id].reports = Range(last'.ids)]_vars

\* C21: create_event_group answers 422 when some listed id is not the id of
\* a stored event and 201 otherwise; after a 201 the stored group holds
\* exactly the listed events, and get_event_group returns that set.
C21_GroupCreated ==
  [][ /\ last'.op = "create_event_group" =>
           /\ last'.status =
                IF \E i \in DOMAIN last'.ids : ~EventExists(last'.ids[i])
                THEN 422 ELSE 201
           /\ (last'.status = 201 =>
                 /\ last'.out_id \in DOMAIN groups'
                 /\ groups'[last'.out_id].events = Range(last'.ids)
                 /\ Range(last'.out_ids) = Range(last'.ids))
      /\ (last'.op = "get_event_group" /\ last'.status = 200) =>
           Range(last'.out_ids) = groups[last'.id].events ]_vars

\* C22: link_report_to_event_group on an existing report and an existing
\* event group answers 200 and adds the group to the report's event_groups
\* when the pair is not linked, and answers 422 leaving the report's
\* event_groups as they were when it is; no other report changes.
C22_LinkOnce ==
  [][(/\ last'.op = "link_report_to_event_group"
      /\ ReportExists(last'.id)
      /\ GroupExists(last'.id2)) =>
       LET r == last'.id
           g == last'.id2
       IN /\ DOMAIN reports' = DOMAIN reports
          /\ IF g \notin reports[r].event_groups
             THEN /\ last'.status = 200
                  /\ reports'[r].event_groups = reports[r].event_groups \cup {g}
             ELSE /\ last'.status = 422
                  /\ reports'[r].event_groups = reports[r].event_groups
          /\ \A o \in DOMAIN reports \ {r} : reports'[o] = reports[o] ]_vars

\* A link request for a pair that is already linked was refused, with a
\* second report stored that has links of its own.
C22_Witness ==
  /\ last.op = "link_report_to_event_group"
  /\ last.status = 422
  /\ ReportExists(last.id)
  /\ last.id2 \in reports[last.id].event_groups
  /\ \E o \in DOMAIN reports \ {last.id} : reports[o].event_groups # {}

\* C23: get_report_and_modifier, get_report_and_event_group and
\* get_report_with_modifier_and_event_group answer 200 with the requested
\* report and exactly the requested modifier / event group when all of them
\* exist and are linked to the report, and 404 when a requested modifier or
\* event group exists and is not linked to the report.
C23_LinkedGetters ==
  LET r == last.id
      g == last.id2
      m == last.mid[1]
      groupLinked == g \in reports[r].event_groups
      modifierLinked == r \in modifiers[m].reports
  IN /\ (/\ last.op = "get_report_and_modifier"
         /\ ReportExists(r) /\ ModifierExists(m)) =>
          IF modifierLinked
          THEN last.status = 200 /\ last.out_id = r
          ELSE last.status = 404
     /\ (/\ last.op = "get_report_and_event_group"
         /\ ReportExists(r) /\ GroupExists(g)) =>
          IF groupLinked
          THEN last.status = 200 /\ last.out_id = r /\ last.out_ids = <<g>>
          ELSE last.status = 404
     /\ (/\ last.op = "get_report_with_modifier_and_event_group"
         /\ ReportExists(r) /\ ModifierExists(m) /\ GroupExists(g)) =>
          IF modifierLinked /\ groupLinked
          THEN last.status = 200 /\ last.out_id = r /\ last.out_ids = <<g>>
          ELSE last.status = 404

\* C24: link_modifier_to_reports on an existing modifier with a list of
\* existing report ids makes the modifier's report set its previous report
\* set united with the listed reports; a request whose reports are all
\* linked already leaves the set as it is.
C24_LinksAccumulate ==
  [][(/\ last'.op = "link_modifier_to_reports"
      /\ ModifierExists(last'.id)
      /\ \A i \in DOMAIN last'.ids : ReportExists(last'.ids[i])) =>
       /\ last'.id \in DOMAIN modifiers'
       /\ modifiers'[last'.id].reports =
            modifiers[last'.id].reports \cup Range(last'.ids)
       /\ (Range(last'.ids) \subseteq modifiers[last'.id].reports =>
             modifiers' = modifiers) ]_vars

\* A list in which some id occurs more than once.
HasRepetition(ids) == Cardinality(Range(ids)) < Len(ids)

\* C25: an id list whose ids all refer to stored entities and in which some
\* id occurs more than once is accepted by create_event_group, by
\* create_report (event_groups) and by link_modifier_to_reports, and each
\* distinct entity is linked once.
C25_RepeatedIdsAccepted ==
  [][ /\ (/\ last'.op = "create_event_group"
          /\ HasRepetition(last'.ids)
          /\ \A i \in DOMAIN last'.ids : EventExists(last'.ids[i])) =>
           /\ last'.status = 201
           /\ last'.out_id \in DOMAIN groups'
           /\ groups'[last'.out_id].events = Range(last'.ids)
      /\ (/\ last'.op = "create_report"
          /\ HasRepetition(last'.ids)
          /\ \A i \in DOMAIN last'.ids : GroupExists(last'.ids[i])) =>
           /\ last'.status = 201
           /\ last'.out_id \in DOMAIN reports' \ DOMAIN reports
           /\ reports'[last'.out_id].event_groups = Range(last'.ids)
      /\ (/\ last'.op = "link_modifier_to_reports"
          /\ ModifierExists(last'.id)
          /\ HasRepetition(last'.ids)
          /\ \A i \in DOMAIN last'.ids : ReportExists(last'.ids[i])) =>
           /\ last'.status = 200
           /\ last'.id \in DOMAIN modifiers'
           /\ modifiers'[last'.id].reports =
                modifiers[last'.id].reports \cup Range(last'.ids) ]_vars

\* The stored ids a listing pages over, in ascending order.
ListedIds(op) ==
  SortedSeq(DOMAIN (IF op = "list_reports" THEN reports ELSE jobs))

\* C26: for per_page >= 1 the pages 1..total_pages of list_reports and of
\* list_jobs partition the stored entities: page p is answered 200 with the
\* ids at positions (p - 1) * per_page + 1 .. min(p * per_page, total) of
\* the ascending id order, so the pages follow one another without gap or
\* overlap and the last one ends at the last stored id; each page holds at
\* most per_page items and, when total > 0, at least one.
C26_PagesPartition ==
  LET ids == ListedIds(last.op)
      total == Len(ids)
      pages == PagesOf(total, last.per_page)
      lo == (last.page - 1) * last.per_page + 1
      hi == Min({last.page * last.per_page, total})
  IN (/\ last.op \in ListOps
      /\ last.per_page >= 1
      /\ last.page \in 1..pages) =>
       /\ last.status = 200
       /\ last.total_pages = pages
       /\ last.out_ids = SubSeq(ids, lo, hi)
       /\ Len(last.out_ids) <= last.per_page
       /\ (total > 0 => Len(last.out_ids) >= 1)
       /\ (last.page = pages => hi = total)

\* C27: for every integer page and every integer per_page, zero and the
\* negative values included, list_reports and list_jobs answer 200 or 422,
\* never 500.
C27_ListingNeverFails ==
  last.op \in ListOps => last.status \in {200, 422}

\* C28: when two link_report_to_event_group requests for the same pair, not
\* linked beforehand, run with their checks and their adds interleaved (each
\* check found the pair unlinked), exactly one of them is answered 200, the
\* other 422, and the pair ends up linked.
C28_OneLinkWins ==
  \A c1 \in CallIds, c2 \in CallIds :
    (/\ c1 # c2
     /\ calls[c1].pc = "done" /\ calls[c2].pc = "done"
     /\ calls[c1].report_id = calls[c2].report_id
     /\ calls[c1].event_group_id = calls[c2].event_group_id
     /\ calls[c1].unlinked /\ calls[c2].unlinked) =>
      /\ {calls[c1].status, calls[c2].status} = {200, 422}
      /\ calls[c1].event_group_id \in reports[calls[c1].report_id].event_groups

====
